---- MODULE Spec2Model ----
(***************************************************************************)
(* Model of the runtime resolution pipeline of src/stage4/src/java.rs      *)
(* (provider A, the flat record array) and src/stage4/src/node.rs          *)
(* (provider B, the tabular official listing; provider C, the indexed      *)
(* record array; the version constraint source).                           *)
(*                                                                         *)
(* Every entry point is a function of the target, of what the network      *)
(* answers and of the local files.  Init draws these inputs from bounded   *)
(* sets and the actions apply the function as the code computes it: an     *)
(* async fn in one step per poll of its future (the GET issued, the        *)
(* response awaited, the body awaited), a panic (unwrap / expect on a      *)
(* failure) being a result of kind "panic".                                *)
(***************************************************************************)
EXTENDS Naturals, Sequences, FiniteSets

VARIABLES
    op,         \* the entry point this run calls
    target,     \* crate::target::Target {os, arch, variant}
    response,   \* what the network answers to the catalog GET
    manifest,   \* the closest package.json, as PackageJsonManager sees it
    nvmrc,      \* the file .nvmrc, as fs::read_to_string sees it
    pc,         \* where the future of the call stands: "start", "get" (the GET is
                \* issued, its response awaited), "text" (the body awaited), "unpack"
                \* (the download awaited), "done", "panicked"
    result,     \* what the call returned, or the panic that ended it
    gets,       \* the endpoints of the catalog GETs performed so far, in order
    cache,      \* the runtimes whose directory under .cache was materialized
    requests,   \* the aliases whose executor was asked to resolve so far, in order
    bin         \* the binary path the last call of get_bin gave

vars == <<op, target, response, manifest, nvmrc, pc, result, gets, cache, requests, bin>>

----------------------------------------------------------------------------
(* Bounds of the model *)

\* longest catalog (JSON array of provider A or C) the network answers with
MaxRecords == 2
\* most rows in the table of the official listing
MaxRows == 2
\* longest content of .nvmrc, in characters
MaxText == 3
\* most calls that resolve a runtime (prep, get_download_urls) in one run
MaxRequests == 4

----------------------------------------------------------------------------
(* crate::target *)

Os == {"Windows", "Linux", "Mac"}
Arch == {"X86_64", "Arm64", "Armv7"}
\* Option<Variant>: "Musl" is Some(Variant::Musl), "None" is no variant
Variant == {"Musl", "None"}
Target == [os : Os, arch : Arch, variant : Variant]

----------------------------------------------------------------------------
(* Strings that the code searches are sequences of characters *)

Contains(s, sub) ==
    \E i \in 1..(Len(s) + 1) :
        /\ i + Len(sub) - 1 <= Len(s)
        /\ SubSeq(s, i, i + Len(sub) - 1) = sub

S_windows == <<"w", "i", "n", "d", "o", "w", "s">>
S_linux == <<"l", "i", "n", "u", "x">>
S_musl == <<"m", "u", "s", "l">>
S_linux_musl == <<"l", "i", "n", "u", "x", "_", "m", "u", "s", "l">>
S_macos == <<"m", "a", "c", "o", "s">>

----------------------------------------------------------------------------
(* Results *)

Ok(v) == [kind |-> "ok", value |-> v]
Panic(why) == [kind |-> "panic", value |-> why]
NoResult == [kind |-> "none", value |-> "none"]

(* The network.  reqwest::get(..).await is Err only when the transport     *)
(* fails ("connect_error"); a response with a non-success status is Ok     *)
(* like a 200 ("http_error": the body is whatever the server sent).  Once  *)
(* the GET resolved Ok, .text().await is Err when the body cannot be read  *)
(* (UnreadBody).                                                           *)
Transport == {"connect_error", "success", "http_error"}
NoBody == [kind |-> "none", array |-> FALSE, elems |-> <<>>, table |-> FALSE, rows |-> <<>>]
\* the body that fails to arrive: text().await is Err
UnreadBody == [kind |-> "error", array |-> FALSE, elems |-> <<>>, table |-> FALSE, rows |-> <<>>]
JsonBody(isArray, elems) ==
    [kind |-> "json", array |-> isArray, elems |-> elems, table |-> FALSE, rows |-> <<>>]
HtmlBody(hasTable, rows) ==
    [kind |-> "html", array |-> FALSE, elems |-> <<>>, table |-> hasTable, rows |-> rows]
\* a text that is no JSON array and holds no table (an error page, say)
OtherBody == HtmlBody(FALSE, <<>>)

SeqsUpTo(S, n) == UNION {[1..k -> S] : k \in 0..n}

----------------------------------------------------------------------------
(* java.rs: provider A *)

\* one element of the JSON array: a Root2 that deserializes, or one that does not
JavaRecordShape ==
    [wellformed : {TRUE}, os : {S_windows, S_linux, S_linux_musl, S_macos},
     arch : {"x86", "arm"}, hw_bitness : {"64", "32"}, ext : {"zip", "tar.gz"}]
        \ {r \in [wellformed : {TRUE}, os : {S_windows, S_linux, S_linux_musl, S_macos},
                  arch : {"x86", "arm"}, hw_bitness : {"64", "32"}, ext : {"zip", "tar.gz"}] :
              r.arch = "x86" /\ r.hw_bitness = "32"}
MalformedJavaRecord ==
    [wellformed |-> FALSE, os |-> <<>>, arch |-> "", hw_bitness |-> "", ext |-> ""]

\* the url of the i-th record: each record carries its own
WithUrl(shapes) ==
    [i \in 1..Len(shapes) |->
        [wellformed |-> shapes[i].wellformed, os |-> shapes[i].os, arch |-> shapes[i].arch,
         hw_bitness |-> shapes[i].hw_bitness, ext |-> shapes[i].ext, url |-> i]]

JavaBodies ==
    {JsonBody(TRUE, WithUrl(s)) :
        s \in SeqsUpTo(JavaRecordShape \cup {MalformedJavaRecord}, MaxRecords)}
    \cup {OtherBody}

JavaResponses ==
    {[transport |-> "connect_error", body |-> NoBody]}
    \cup [transport : {"success", "http_error"}, body : JavaBodies \cup {UnreadBody}]

\* serde_json::from_str::<Vec<Root2>>: every element must deserialize
from_str(json) ==
    IF json.kind = "json" /\ json.array /\ \A i \in 1..Len(json.elems) : json.elems[i].wellformed
    THEN Ok(json.elems)
    ELSE Panic("JSON was not well-formatted")

node_os(node) ==
    IF node.os = S_windows THEN "Windows"
    ELSE IF Contains(node.os, S_linux) THEN "Linux"
    ELSE "Mac"

ext(t) == IF t.os = "Windows" THEN "zip" ELSE "tar.gz"

\* Option<Arch>: "None" is no architecture
node_arch(node) ==
    IF node.arch = "x86" /\ node.hw_bitness = "64" THEN "X86_64"
    ELSE IF node.arch = "arm" /\ node.hw_bitness = "64" THEN "Armv7"
    ELSE "None"

variant_check_strict(node, t) == (t.variant = "Musl") = Contains(node.os, S_musl)
variant_check(node, t) == t.variant # "Musl" \/ Contains(node.os, S_musl)

\* the closure given to find
JavaPredicate(node, t) ==
    IF node_arch(node) # "None"
    THEN /\ variant_check(node, t)
         /\ node_os(node) = t.os
         /\ node_arch(node) = t.arch
         /\ node.ext = ext(t)
    ELSE FALSE

\* Iterator::find: the index of the first element the closure accepts, 0 for None
RECURSIVE FindFrom(_, _, _)
FindFrom(root, t, i) ==
    IF i > Len(root) THEN 0
    ELSE IF JavaPredicate(root[i], t) THEN i
    ELSE FindFrom(root, t, i + 1)

RECURSIVE FindLastFrom(_, _, _)
FindLastFrom(root, t, i) ==
    IF i < 1 THEN 0
    ELSE IF JavaPredicate(root[i], t) THEN i
    ELSE FindLastFrom(root, t, i - 1)

find_last(root, t) == FindLastFrom(root, t, Len(root))
find(root, t) == FindFrom(root, t, 1)

\* the endpoint of reqwest::get
azul_endpoint ==
    "https://www.azul.com/wp-admin/admin-ajax.php?action=bundles&endpoint=community"
        \o "&use_stage=false&include_fields=java_version,release_status,abi,arch,"
        \o "bundle_type,cpu_gen,ext,features,hw_bitness,javafx,latest,os,support_term"

get_java_download_url(t, resp) ==
    IF resp.transport = "connect_error" THEN Panic("called unwrap on an Err value")
    ELSE IF resp.body.kind = "error" THEN Panic("called unwrap on an Err value")
    ELSE LET root == from_str(resp.body) IN
         IF root.kind = "panic" THEN root
         ELSE LET node == find(root.value, t) IN
              IF node = 0 THEN Panic("called unwrap on a None value")
              ELSE Ok(root.value[node].url)

----------------------------------------------------------------------------
(* Specification of provider A *)

NoManifest == [kind |-> "missing", node |-> <<>>]
NoFile == [present |-> FALSE, text |-> <<>>]

Idle ==
    /\ pc = "start"
    /\ result = NoResult
    /\ gets = <<>>
    /\ cache = {}
    /\ requests = <<>>
    /\ bin = "none"

InitJava ==
    /\ op = "java"
    /\ target \in Target
    /\ response \in JavaResponses
    /\ manifest = NoManifest
    /\ nvmrc = NoFile
    /\ Idle

(* get_java_download_url is an async fn: its future suspends at            *)
(* reqwest::get(..).await and at .text().await, and is ready on the poll   *)
(* after the body arrived.                                                 *)

\* first poll: the GET is issued, the future is pending
JavaGet ==
    /\ op = "java"
    /\ pc = "start"
    /\ gets' = Append(gets, azul_endpoint)
    /\ pc' = "get"
    /\ UNCHANGED <<op, target, response, manifest, nvmrc, result, cache, requests, bin>>

\* the GET resolved: unwrap() panics on a transport error, else text() is awaited
JavaAwaitGet ==
    /\ op = "java"
    /\ pc = "get"
    /\ IF response.transport = "connect_error"
       THEN result' = get_java_download_url(target, response) /\ pc' = "done"
       ELSE result' = result /\ pc' = "text"
    /\ UNCHANGED <<op, target, response, manifest, nvmrc, gets, cache, requests, bin>>

\* text() resolved: unwrap() panics when the body could not be read, else it
\* is deserialized and searched; the future is ready
JavaAwaitText ==
    /\ op = "java"
    /\ pc = "text"
    /\ result' = get_java_download_url(target, response)
    /\ pc' = "done"
    /\ UNCHANGED <<op, target, response, manifest, nvmrc, gets, cache, requests, bin>>

NextJava == JavaGet \/ JavaAwaitGet \/ JavaAwaitText

SpecJava == InitJava /\ [][NextJava]_vars

----------------------------------------------------------------------------
(* Claims about provider A, checked under SpecJava *)

\* the call fetched a body and deserialized it to a catalog
JavaParsed ==
    /\ op = "java"
    /\ pc = "done"
    /\ response.transport # "connect_error"
    /\ response.body.kind = "json"
    /\ response.body.array
    /\ \A i \in 1..Len(response.body.elems) : response.body.elems[i].wellformed

Catalog == response.body.elems

\* the four matches of a record against the target, as the selector derives them
C1_Matches(rec, t) ==
    /\ node_os(rec) = t.os
    /\ node_arch(rec) = t.arch
    /\ rec.ext = (IF t.os = "Windows" THEN "zip" ELSE "tar.gz")
    /\ (t.variant = "Musl" => Contains(rec.os, S_musl))

C1_Matching == {i \in 1..Len(Catalog) : C1_Matches(Catalog[i], target)}

\* C1: get_java_download_url returns the URL of the first record in catalog
\* order whose os, derived arch, file extension and variant compatibility all
\* match the target, and fails when no record matches all four.
C1_FirstMatchWins ==
    JavaParsed =>
        IF C1_Matching = {}
        THEN result.kind = "panic"
        ELSE /\ result.kind = "ok"
             /\ \E i \in C1_Matching :
                    /\ result.value = Catalog[i].url
                    /\ \A j \in C1_Matching : i <= j

\* two records match and the earlier one is returned
C1_Witness ==
    /\ JavaParsed
    /\ Cardinality(C1_Matching) >= 2
    /\ result = Ok(Catalog[1].url)

\* every record whose os names linux is tagged musl, the target is a
\* non-musl Linux
C2_Case ==
    /\ JavaParsed
    /\ target.os = "Linux"
    /\ target.variant # "Musl"
    /\ \A i \in 1..Len(Catalog) :
           Contains(Catalog[i].os, S_linux) => Contains(Catalog[i].os, S_musl)

C2_ArchExtMatching ==
    {i \in 1..Len(Catalog) :
        /\ Contains(Catalog[i].os, S_linux)
        /\ node_arch(Catalog[i]) = target.arch
        /\ Catalog[i].ext = "tar.gz"}

\* C2 as stated: a catalog whose Linux records are all musl-tagged, queried
\* with a non-musl Linux target, returns no artifact.
C2_Original == C2_Case => result.kind = "panic"

\* C2 as amended: in that case the URL of the first musl-tagged Linux record
\* whose arch and extension match the target is returned; the call fails only
\* when no Linux record's arch and extension match.
C2_Amended ==
    C2_Case =>
        IF C2_ArchExtMatching = {}
        THEN result.kind = "panic"
        ELSE /\ result.kind = "ok"
             /\ result.value \in {Catalog[i].url : i \in C2_ArchExtMatching}
             /\ \A i \in C2_ArchExtMatching : result.value <= Catalog[i].url

\* a musl-tagged record is returned to a non-musl Linux target
C2_Witness ==
    /\ C2_Case
    /\ result.kind = "ok"
    /\ Contains(Catalog[result.value].os, S_musl)

\* the architecture the claim derives from (cpu family, bitness)
C3_Arch(rec) ==
    IF rec.arch = "x86" /\ rec.hw_bitness = "64" THEN "X86_64"
    ELSE IF rec.arch = "arm" /\ rec.hw_bitness = "64" THEN "Arm64"
    ELSE "None"

C3_Matching ==
    {i \in 1..Len(Catalog) :
        /\ node_os(Catalog[i]) = target.os
        /\ C3_Arch(Catalog[i]) = target.arch
        /\ Catalog[i].ext = ext(target)
        /\ variant_check(Catalog[i], target)}

\* C3: ("x86","64") is X86_64 and ("arm","64") is Arm64, so a record is
\* selected only for the target of that architecture and is found when it is
\* there; a record with any other pair is never selected.
C3_ArchDerivation ==
    JavaParsed =>
        /\ result.kind = "ok" => result.value \in {Catalog[i].url : i \in C3_Matching}
        /\ C3_Matching # {} => result.kind = "ok"

----------------------------------------------------------------------------
(* node.rs: providers B (official listing) and C (unofficial index) *)

RECURSIVE Join(_)
\* the string a sequence of pieces spells
Join(pieces) == IF pieces = <<>> THEN "" ELSE Head(pieces) \o Join(Tail(pieces))

Reverse(s) == [i \in 1..Len(s) |-> s[Len(s) + 1 - i]]

\* Download::new(url, version)
Download(url, version) == [url |-> url, version |-> version]

official_endpoint == "https://nodejs.org/en/download/releases/"
unofficial_endpoint == "https://unofficial-builds.nodejs.org/download/release/index.json"

\* the file of official_downloads, by (os, arch)
official_file(t) ==
    IF t.os = "Windows" THEN "win-x64.zip"
    ELSE IF t.os = "Linux" /\ t.arch = "Armv7" THEN "linux-armv7l.tar.gz"
    ELSE IF t.os = "Linux" /\ t.arch = "Arm64" THEN "linux-arm64.tar.gz"
    ELSE IF t.os = "Linux" THEN "linux-x64.tar.gz"
    ELSE IF t.os = "Mac" /\ t.arch = "Arm64" THEN "darwin-arm64.tar.gz"
    ELSE "darwin-x64.tar.gz"

(* A cell's first text node is a sequence of pieces: the words "Node.js",  *)
(* blanks, a version.  replace("Node.js", "") drops the word, trim() the   *)
(* blanks at both ends.                                                    *)
RemoveWord(text, w) == SelectSeq(text, LAMBDA piece : piece # w)

RECURSIVE TrimStart(_)
TrimStart(text) ==
    IF text # <<>> /\ Head(text) = " " THEN TrimStart(Tail(text)) ELSE text

Trim(text) == Reverse(TrimStart(Reverse(TrimStart(text))))

CellText(text) == Join(Trim(RemoveWord(text, "Node.js")))

\* a row of #tbVersions: its td cells by data-label (the HashMap fields);
\* a label the row lacks has has* = FALSE
OfficialVersions == {"20.1.0", "18.5.0"}
VersionTexts ==
    {<<"Node.js", " ", v>> : v \in OfficialVersions} \cup {<<v, " ">> : v \in OfficialVersions}
Row ==
    [hasVersion : {TRUE}, Version : VersionTexts, hasLTS : BOOLEAN]
    \cup [hasVersion : {FALSE}, Version : {<<>>}, hasLTS : BOOLEAN]

HtmlBodies == {HtmlBody(TRUE, rows) : rows \in SeqsUpTo(Row, MaxRows)} \cup {OtherBody}

\* an element of the index: a Root2 that deserializes, or one that does not
UnofficialVersions == {"v20.1.0", "v20.0.0", "v18.5.0"}
FileSets ==
    { {},
      {"linux-x64-musl", "linux-arm64-musl", "win-arm64-zip", "win-x64-zip"},
      {"linux-x64-musl", "linux-armv7l-musl", "linux-x64"} }
NodeRecord == [wellformed : {TRUE}, version : UnofficialVersions, files : FileSets]
MalformedNodeRecord == [wellformed |-> FALSE, version |-> "", files |-> {}]

IndexBodies ==
    {JsonBody(TRUE, elems) :
        elems \in SeqsUpTo(NodeRecord \cup {MalformedNodeRecord}, MaxRecords)}

NodeResponses ==
    {[transport |-> "connect_error", body |-> NoBody]}
    \cup [transport : {"success", "http_error"},
          body : HtmlBodies \cup IndexBodies \cup {UnreadBody}]

\* Html::parse_document and select("#tbVersions tbody tr"): any text parses,
\* a text without the table has no rows
select_rows(body) == IF body.kind = "html" /\ body.table THEN body.rows ELSE <<>>

official_url(version, file) ==
    "https://nodejs.org/download/release/v" \o version \o "/node-v" \o version \o "-" \o file

official_downloads(t, resp) ==
    IF resp.transport = "connect_error" THEN Panic("Unable to connect to nodejs.org")
    ELSE IF resp.body.kind = "error" THEN Panic("Unable to download nodejs list of versions")
    ELSE LET file == official_file(t)
             rows == SelectSeq(select_rows(resp.body), LAMBDA row : row.hasVersion)
         IN  Ok([i \in 1..Len(rows) |->
                    Download(official_url(CellText(rows[i].Version), file),
                             CellText(rows[i].Version))])

\* the file of unofficial_downloads, by (os, arch, variant), in pieces
unofficial_file(t) ==
    IF t.os = "Windows" /\ t.arch = "Arm64" THEN <<"win-arm64", "-zip">>
    ELSE IF t.os = "Windows" THEN <<"win-x64", "-zip">>
    ELSE IF t.os = "Linux" /\ t.arch = "Armv7" /\ t.variant = "Musl" THEN <<"linux-armv7l", "-musl">>
    ELSE IF t.os = "Linux" /\ t.arch = "Arm64" /\ t.variant = "Musl" THEN <<"linux-arm64", "-musl">>
    ELSE IF t.os = "Linux" /\ t.arch = "X86_64" /\ t.variant = "Musl" THEN <<"linux-x64", "-musl">>
    ELSE IF t.os = "Linux" /\ t.arch = "Armv7" THEN <<"linux-armv7l">>
    ELSE IF t.os = "Linux" /\ t.arch = "Arm64" THEN <<"linux-arm64">>
    ELSE <<"linux-x64">>

\* file.ends_with("-zip"): replace it by ".zip", else append ".tar.gz"
file_fix(file) ==
    IF file[Len(file)] = "-zip"
    THEN Join([i \in 1..Len(file) |-> IF file[i] = "-zip" THEN ".zip" ELSE file[i]])
    ELSE Join(file) \o ".tar.gz"

unofficial_url(version, fixed) ==
    "https://unofficial-builds.nodejs.org/download/release/" \o version
        \o "/node-" \o version \o "-" \o fixed

\* root.iter().rev()
iter_rev(root) == Reverse(root)

unofficial_downloads(t, resp) ==
    IF resp.transport = "connect_error" THEN Panic("called unwrap on an Err value")
    ELSE IF resp.body.kind = "error" THEN Panic("called unwrap on an Err value")
    ELSE LET file == unofficial_file(t)
             root == from_str(resp.body)
         IN  IF root.kind = "panic" THEN root
             ELSE LET kept == SelectSeq(iter_rev(root.value),
                                        LAMBDA r : Join(file) \in r.files)
                  IN  Ok([i \in 1..Len(kept) |->
                            Download(unofficial_url(kept[i].version, file_fix(file)),
                                     kept[i].version)])

route_musl_only(t) == IF t.os = "Linux" /\ t.variant = "Musl" THEN "unofficial" ELSE "official"
\* the match of get_node_urls
route(t) ==
    IF t.os = "Linux" /\ t.variant = "Musl" THEN "unofficial"
    ELSE IF t.os = "Windows" /\ t.arch = "Arm64" THEN "unofficial"
    ELSE "official"

get_node_urls(t, resp) ==
    IF route(t) = "unofficial" THEN unofficial_downloads(t, resp) ELSE official_downloads(t, resp)

\* the GETs one call of get_node_urls performs
node_gets(t) == IF route(t) = "unofficial" THEN <<unofficial_endpoint>> ELSE <<official_endpoint>>

----------------------------------------------------------------------------
(* Specification of providers B and C *)

InitNode ==
    /\ op = "node"
    /\ target \in Target
    /\ response \in NodeResponses
    /\ manifest = NoManifest
    /\ nvmrc = NoFile
    /\ Idle

(* get_node_urls is an async fn: it awaits the provider the match picks,   *)
(* whose future suspends at reqwest::get(..).await and at .text().await.   *)

\* first poll: the routed provider issues its GET, the future is pending
NodeGet ==
    /\ op = "node"
    /\ pc = "start"
    /\ gets' = gets \o node_gets(target)
    /\ pc' = "get"
    /\ UNCHANGED <<op, target, response, manifest, nvmrc, result, cache, requests, bin>>

\* the GET resolved: expect() / unwrap() panics on a transport error, else
\* text() is awaited
NodeAwaitGet ==
    /\ op = "node"
    /\ pc = "get"
    /\ IF response.transport = "connect_error"
       THEN result' = get_node_urls(target, response) /\ pc' = "done"
       ELSE result' = result /\ pc' = "text"
    /\ UNCHANGED <<op, target, response, manifest, nvmrc, gets, cache, requests, bin>>

\* text() resolved: expect() / unwrap() panics when the body could not be
\* read, else the provider builds its candidates; the future is ready
NodeAwaitText ==
    /\ op = "node"
    /\ pc = "text"
    /\ result' = get_node_urls(target, response)
    /\ pc' = "done"
    /\ UNCHANGED <<op, target, response, manifest, nvmrc, gets, cache, requests, bin>>

NextNode == NodeGet \/ NodeAwaitGet \/ NodeAwaitText

SpecNode == InitNode /\ [][NextNode]_vars

----------------------------------------------------------------------------
(* Claims about providers B and C, checked under SpecNode *)

C4_Os(t) == IF t.os = "Windows" THEN "win" ELSE IF t.os = "Linux" THEN "linux" ELSE "darwin"
C4_Arch(t) == IF t.arch = "X86_64" THEN "x64" ELSE IF t.arch = "Arm64" THEN "arm64" ELSE "armv7l"
C4_Libc(t) == IF t.os = "Linux" /\ t.variant = "Musl" THEN "-musl" ELSE ""
C4_Ext(t) == IF t.os = "Windows" THEN ".zip" ELSE ".tar.gz"
\* the file name that names the target's own os, arch and variant
C4_File(t) == C4_Os(t) \o "-" \o C4_Arch(t) \o C4_Libc(t) \o C4_Ext(t)

\* C4: every candidate get_node_urls returns for a target has a URL whose
\* file name names the target's own os, arch and libc variant.
C4_SuffixNamesTarget ==
    (op = "node" /\ pc = "done" /\ result.kind = "ok") =>
        \A i \in 1..Len(result.value) :
            result.value[i].url \in
                {official_url(result.value[i].version, C4_File(target)),
                 unofficial_url(result.value[i].version, C4_File(target))}

\* the index was fetched, deserialized and filtered for the target
C5_Case ==
    /\ op = "node"
    /\ pc = "done"
    /\ route(target) = "unofficial"
    /\ result.kind = "ok"

C5_Rank(version) ==
    IF version = "v18.5.0" THEN 1 ELSE IF version = "v20.0.0" THEN 2 ELSE 3

\* the source catalog is sorted by version, descending
C5_Descending(root) ==
    \A i, j \in 1..Len(root) : i < j => C5_Rank(root[i].version) > C5_Rank(root[j].version)

\* the records of the source that list the target's suffix, in source order
C5_Compatible ==
    SelectSeq(Catalog, LAMBDA r : Join(unofficial_file(target)) \in r.files)

\* C5: unofficial_downloads returns the records that list the target's
\* suffix in the same relative order as the (descending) source catalog, so
\* the first candidate is the newest compatible version.
C5_OrderPreserved ==
    (C5_Case /\ C5_Descending(Catalog)) =>
        /\ Len(result.value) = Len(C5_Compatible)
        /\ \A i \in 1..Len(result.value) : result.value[i].version = C5_Compatible[i].version
        /\ \A i \in 1..Len(result.value) :
               C5_Rank(result.value[1].version) >= C5_Rank(result.value[i].version)

C9_Indexed(t) ==
    \/ t.os = "Linux" /\ t.variant = "Musl"
    \/ t.os = "Windows" /\ t.arch = "Arm64"

\* C9: get_node_urls performs exactly one catalog GET: of the unofficial index
\* for a musl Linux target or an ARM64 Windows target, of the official listing
\* for every other target, and returns what that provider returns.
C9_RoutesToOneProvider ==
    /\ (op = "node" /\ pc # "start") =>
            gets = <<IF C9_Indexed(target) THEN unofficial_endpoint ELSE official_endpoint>>
    /\ (op = "node" /\ pc = "done") =>
            result = (IF C9_Indexed(target)
                      THEN unofficial_downloads(target, response)
                      ELSE official_downloads(target, response))

\* an ARM64 Windows target without variant got its candidates from the index
C9_Witness ==
    /\ op = "node"
    /\ pc = "done"
    /\ target = [os |-> "Windows", arch |-> "Arm64", variant |-> "None"]
    /\ gets = <<unofficial_endpoint>>
    /\ result.kind = "ok"
    /\ Len(result.value) >= 1

----------------------------------------------------------------------------
(* node.rs: the version constraint source *)

\* the characters a text is drawn from; " " is the blank
Chars == {"v", "1", ".", " ", "a"}
Digits == {"0", "1", "2", "3", "4", "5", "6", "7", "8", "9"}

\* Regex::new("^v").replace(text, ""): drops one leading v
strip_v(text) == IF text # <<>> /\ Head(text) = "v" THEN Tail(text) ELSE text

RECURSIVE SplitDots(_)
SplitDots(text) ==
    IF \A i \in 1..Len(text) : text[i] # "."
    THEN <<text>>
    ELSE LET i == CHOOSE k \in 1..Len(text) :
                      text[k] = "." /\ \A m \in 1..(k - 1) : text[m] # "."
         IN  <<SubSeq(text, 1, i - 1)>> \o SplitDots(SubSeq(text, i + 1, Len(text)))

DigitOrder == <<"0", "1", "2", "3", "4", "5", "6", "7", "8", "9">>
DigitValue(d) == CHOOSE k \in 1..Len(DigitOrder) : DigitOrder[k] = d

\* u64::MAX, 18446744073709551615, in digits
U64MaxDigits ==
    <<"1", "8", "4", "4", "6", "7", "4", "4", "0", "7",
      "3", "7", "0", "9", "5", "5", "1", "6", "1", "5">>

\* the digits spell a number that fits a u64
FitsU64(p) ==
    \/ Len(p) < Len(U64MaxDigits)
    \/ /\ Len(p) = Len(U64MaxDigits)
       /\ \A i \in 1..Len(p) :
              (\A m \in 1..(i - 1) : p[m] = U64MaxDigits[m])
                  => DigitValue(p[i]) <= DigitValue(U64MaxDigits[i])

\* a numeric identifier: digits, no leading zero, within u64
IsNumber(p) ==
    /\ p # <<>>
    /\ \A i \in 1..Len(p) : p[i] \in Digits
    /\ (Len(p) > 1 => p[1] # "0")
    /\ FitsU64(p)

\* VersionReq::default(): the requirement with no comparator, matching any version
STAR == [comparators |-> <<>>]
Err == [kind |-> "err", value |-> STAR]

(* VersionReq::parse on the texts of Chars: blanks before and after the    *)
(* comparator are skipped; the comparator is major, major.minor or         *)
(* major.minor.patch, a bare version being a caret comparator; anything    *)
(* else, the empty text and a blank inside the version included, is an     *)
(* error.                                                                  *)
VersionReq_parse(text) ==
    LET parts == SplitDots(Trim(text)) IN
    IF Len(parts) <= 3 /\ \A i \in 1..Len(parts) : IsNumber(parts[i])
    THEN Ok([comparators |-> <<[op |-> "Caret", parts |-> parts]>>])
    ELSE Err

Some(req) == [some |-> TRUE, req |-> req]
None == [some |-> FALSE, req |-> STAR]

\* the closest package.json: not found, unreadable, or read, with or without
\* engines and with or without engines.node
ManifestTexts ==
    {<<"1">>, <<"1", ".", "1">>, <<"1", " ">>, <<" ", "1">>, <<"1", " ", "1">>,
     <<"a">>, <<"v", "1">>, <<>>}
Manifest ==
    [kind : {"missing", "unreadable", "no_engines"}, hasNode : {FALSE}, node : {<<>>}]
    \cup [kind : {"engines"}, hasNode : {FALSE}, node : {<<>>}]
    \cup [kind : {"engines"}, hasNode : {TRUE}, node : ManifestTexts]

Nvmrc == {NoFile} \cup [present : {TRUE}, text : SeqsUpTo(Chars, MaxText)]

unwrap_or(parsed, default) == IF parsed.kind = "ok" THEN parsed.value ELSE default

\* the text .nvmrc is parsed from
nvmrc_text(text) == Trim(strip_v(text))

get_package_version(m, f) ==
    IF m.kind = "engines"
    THEN Some(unwrap_or(VersionReq_parse(IF m.hasNode THEN m.node ELSE <<>>), STAR))
    ELSE IF f.present /\ VersionReq_parse(nvmrc_text(f.text)).kind = "ok"
         THEN Some(VersionReq_parse(nvmrc_text(f.text)).value)
         ELSE None

InitPkg ==
    /\ op = "version"
    /\ target \in {[os |-> "Linux", arch |-> "X86_64", variant |-> "None"]}
    /\ response = [transport |-> "connect_error", body |-> NoBody]
    /\ manifest \in Manifest
    /\ nvmrc \in Nvmrc
    /\ Idle

GetPackageVersion ==
    /\ op = "version"
    /\ pc = "start"
    /\ result' = Ok(get_package_version(manifest, nvmrc))
    /\ pc' = "done"
    /\ UNCHANGED <<op, target, response, manifest, nvmrc, gets, cache, requests, bin>>

NextPkg == GetPackageVersion

SpecPkg == InitPkg /\ [][NextPkg]_vars

ManifestParses ==
    manifest.kind = "engines" /\ manifest.hasNode /\ VersionReq_parse(manifest.node).kind = "ok"

DotfileParses ==
    nvmrc.present /\ VersionReq_parse(nvmrc_text(nvmrc.text)).kind = "ok"

\* the requirement a returned option filters by: None filters nothing, like
\* the requirement without comparators
Constraint(option) == IF option.some THEN option.req ELSE STAR

\* C8: get_package_version returns the constraint of the first source that
\* parses, the manifest's runtime-version field before the dotfile, no
\* constraint exactly when neither is present and parsable, and never an
\* error.  (None and Some of the empty requirement are not told apart here.)
C8_FirstParsableSourceWins ==
    (op = "version" /\ pc = "done") =>
        /\ result.kind = "ok"
        /\ Constraint(result.value) =
            IF ManifestParses THEN VersionReq_parse(manifest.node).value
            ELSE IF DotfileParses THEN VersionReq_parse(nvmrc_text(nvmrc.text)).value
            ELSE STAR

----------------------------------------------------------------------------
(* The three providers and the version constraint source together *)

Init == InitJava \/ InitNode \/ InitPkg

Next ==
    \/ JavaGet \/ JavaAwaitGet \/ JavaAwaitText
    \/ NodeGet \/ NodeAwaitGet \/ NodeAwaitText
    \/ GetPackageVersion

Spec == Init /\ [][Next]_vars

\* the provider a call of this run reads its catalog from
Provider == IF op = "java" THEN "A" ELSE IF route(target) = "unofficial" THEN "C" ELSE "B"

\* C6: a catalog fetch that gets a non-success transport result (a connection
\* error, a non-success HTTP status, a body that cannot be read) ends the
\* resolution in a failure, for
\* each of the three providers; no candidate list, empty or not, is returned.
C6_FetchFailureIsFatal ==
    (pc = "done" /\ op \in {"java", "node"}
        /\ (\/ response.transport \in {"connect_error", "http_error"}
            \/ response.body.kind = "error")) =>
            result.kind = "panic"

\* the top-level structure of the fetched catalog is the provider's: a JSON
\* array for A and C, a document holding the table for B
TopLevelWellFormed ==
    IF Provider = "B"
    THEN response.body.kind = "html" /\ response.body.table
    ELSE response.body.kind = "json" /\ response.body.array

Malformed ==
    {i \in 1..Len(response.body.elems) : ~response.body.elems[i].wellformed}
    \cup {i \in 1..Len(response.body.rows) : ~response.body.rows[i].hasVersion}

\* the response with its malformed rows and records left out
WithoutMalformed ==
    [response EXCEPT
        !.body.elems = SelectSeq(@, LAMBDA r : r.wellformed),
        !.body.rows = SelectSeq(@, LAMBDA row : row.hasVersion)]

\* C7: a catalog malformed at top level is a fatal error; a catalog well-formed
\* at top level with one malformed row or record yields what the catalog
\* without that row or record yields.
C7_MalformedPolicy ==
    (pc = "done" /\ op \in {"java", "node"} /\ response.transport = "success"
        /\ response.body.kind # "error") =>
        IF ~TopLevelWellFormed
        THEN result.kind = "panic"
        ELSE Cardinality(Malformed) <= 1 =>
                LET others == IF op = "java"
                              THEN get_java_download_url(target, WithoutMalformed)
                              ELSE get_node_urls(target, WithoutMalformed)
                IN  /\ result.kind = others.kind
                    /\ result.kind = "ok" => result.value = others.value

----------------------------------------------------------------------------
(* The executors: impl Executor for Java and impl Executor for Node.  Java *)
(* is a struct without a field and Node holds only cmd, the alias it was   *)
(* made for: a call of a method starts from nothing an earlier call left.  *)
(* The methods are called for one target, one call at a time, in any       *)
(* order; a panic unwinds out of the future and the call never returns.    *)

NodeAliases == {"node", "npm", "npx"}

\* Java::get_bin
java_get_bin(t) == IF t.os = "Windows" THEN "bin/java.exe" ELSE "bin/java"

\* Node::get_bin, for Node {cmd}
node_get_bin(c, t) ==
    IF t.os = "Windows"
    THEN (IF c = "node" THEN "node.exe" ELSE IF c = "npm" THEN "npm.cmd" ELSE "npx.cmd")
    ELSE (IF c = "node" THEN "bin/node" ELSE IF c = "npm" THEN "bin/npm" ELSE "bin/npx")

\* the GETs one call of Java::prep performs, through get_java_download_url
java_gets == <<azul_endpoint>>

\* what the network may answer to a call
ExecJavaResponses ==
    {[transport |-> "connect_error", body |-> NoBody],
     [transport |-> "success", body |-> UnreadBody]}
    \cup {[transport |-> "success",
           body |-> JsonBody(TRUE, WithUrl(<<[wellformed |-> TRUE, os |-> o, arch |-> "x86",
                                              hw_bitness |-> "64", ext |-> e]>>))] :
             o \in {S_windows, S_linux_musl}, e \in {"zip", "tar.gz"}}

\* the endpoint the call is routed to answers in its own format
ExecNodeResponses(t) ==
    {[transport |-> "connect_error", body |-> NoBody],
     [transport |-> "success", body |-> UnreadBody]}
    \cup (IF route(t) = "unofficial"
          THEN {[transport |-> "success",
                 body |-> JsonBody(TRUE, <<[wellformed |-> TRUE, version |-> "v20.1.0",
                                            files |-> {"linux-x64-musl", "linux-arm64-musl",
                                                       "win-arm64-zip", "win-x64-zip"}]>>)]}
          ELSE {[transport |-> "success",
                 body |-> HtmlBody(TRUE, <<[hasVersion |-> TRUE, Version |-> <<"20.1.0", " ">>,
                                            hasLTS |-> FALSE]>>)]})

NoResponse == [transport |-> "none", body |-> NoBody]

InitExec ==
    /\ op = "exec"
    /\ target \in Target
    /\ response = NoResponse
    /\ manifest = NoManifest
    /\ nvmrc = NoFile
    /\ Idle

\* the runtime an alias belongs to
RuntimeOfAlias(c) == IF c = "java" THEN "java" ELSE "node"
\* the alias of the executor whose call is in progress
Pending == requests[Len(requests)]

(* Java::prep is called for the alias java.  The first poll of its future  *)
(* enters get_java_download_url, which issues the GET: nothing is tested   *)
(* before it.                                                              *)
JavaPrep ==
    /\ op = "exec"
    /\ pc = "start"
    /\ Len(requests) < MaxRequests
    /\ requests' = Append(requests, "java")
    /\ gets' = gets \o java_gets
    /\ pc' = "get"
    /\ UNCHANGED <<op, target, response, manifest, nvmrc, result, cache, bin>>

\* the GET of Java::prep resolved: a transport error panics, else the body
\* is awaited
JavaPrepAwaitGet ==
    /\ op = "exec"
    /\ pc = "get"
    /\ RuntimeOfAlias(Pending) = "java"
    /\ \E resp \in ExecJavaResponses :
           /\ response' = resp
           /\ IF resp.transport = "connect_error"
              THEN result' = get_java_download_url(target, resp) /\ pc' = "panicked"
              ELSE result' = result /\ pc' = "text"
    /\ UNCHANGED <<op, target, manifest, nvmrc, gets, cache, requests, bin>>

(* The body arrived: get_java_download_url returns the URL or panics.     *)
(* With the URL, prep prints it and awaits                                *)
(* download_unpack_and_all_that_stuff(&java_url, ".cache/java").          *)
JavaPrepAwaitText ==
    /\ op = "exec"
    /\ pc = "text"
    /\ RuntimeOfAlias(Pending) = "java"
    /\ result' = get_java_download_url(target, response)
    /\ pc' = (IF result'.kind = "panic" THEN "panicked" ELSE "unpack")
    /\ UNCHANGED <<op, target, response, manifest, nvmrc, gets, cache, requests, bin>>

(* download_unpack_and_all_that_stuff resolved.  The collaborator is       *)
(* expected to materialize the directory it is given; it may as well fail. *)
(* Then prep returns.                                                      *)
JavaPrepAwaitUnpack ==
    /\ op = "exec"
    /\ pc = "unpack"
    /\ \E materialized \in BOOLEAN :
           IF materialized
           THEN cache' = cache \cup {"java"} /\ pc' = "start"
           ELSE cache' = cache /\ pc' = "panicked"
    /\ UNCHANGED <<op, target, response, manifest, nvmrc, result, gets, requests, bin>>

(* Node {cmd: c}.get_download_urls is called.  The first poll of its       *)
(* future enters get_node_urls, whose provider issues the GET: nothing is  *)
(* tested before it.                                                       *)
NodeGetDownloadUrls(c) ==
    /\ op = "exec"
    /\ pc = "start"
    /\ Len(requests) < MaxRequests
    /\ requests' = Append(requests, c)
    /\ gets' = gets \o node_gets(target)
    /\ pc' = "get"
    /\ UNCHANGED <<op, target, response, manifest, nvmrc, result, cache, bin>>

\* the GET of get_download_urls resolved: a transport error panics, else the
\* body is awaited
NodeUrlsAwaitGet ==
    /\ op = "exec"
    /\ pc = "get"
    /\ RuntimeOfAlias(Pending) = "node"
    /\ \E resp \in ExecNodeResponses(target) :
           /\ response' = resp
           /\ IF resp.transport = "connect_error"
              THEN result' = get_node_urls(target, resp) /\ pc' = "panicked"
              ELSE result' = result /\ pc' = "text"
    /\ UNCHANGED <<op, target, manifest, nvmrc, gets, cache, requests, bin>>

\* the body arrived: get_download_urls returns the candidates, an empty Vec
\* included, or panics
NodeUrlsAwaitText ==
    /\ op = "exec"
    /\ pc = "text"
    /\ RuntimeOfAlias(Pending) = "node"
    /\ result' = get_node_urls(target, response)
    /\ pc' = (IF result'.kind = "panic" THEN "panicked" ELSE "start")
    /\ UNCHANGED <<op, target, response, manifest, nvmrc, gets, cache, requests, bin>>

\* Java::get_bin is called: no network, no state
JavaGetBin ==
    /\ op = "exec"
    /\ pc = "start"
    /\ bin' = java_get_bin(target)
    /\ UNCHANGED <<op, target, response, manifest, nvmrc, pc, result, gets, cache, requests>>

\* Node {cmd: c}.get_bin is called: no network, no state
NodeGetBin(c) ==
    /\ op = "exec"
    /\ pc = "start"
    /\ bin' = node_get_bin(c, target)
    /\ UNCHANGED <<op, target, response, manifest, nvmrc, pc, result, gets, cache, requests>>

NextExec ==
    \/ JavaPrep
    \/ JavaPrepAwaitGet
    \/ JavaPrepAwaitText
    \/ JavaPrepAwaitUnpack
    \/ \E c \in NodeAliases : NodeGetDownloadUrls(c)
    \/ NodeUrlsAwaitGet
    \/ NodeUrlsAwaitText
    \/ JavaGetBin
    \/ \E c \in NodeAliases : NodeGetBin(c)

SpecExec == InitExec /\ [][NextExec]_vars

RuntimeOf(endpoint) == IF endpoint = azul_endpoint THEN "java" ELSE "node"
FetchCount(runtime) == Cardinality({i \in 1..Len(gets) : RuntimeOf(gets[i]) = runtime})

\* C10: for one (runtime, target) pair at most one catalog GET is performed in
\* total, however many command aliases of the runtime are requested.
C10_AtMostOneFetch ==
    op = "exec" => \A runtime \in {"java", "node"} : FetchCount(runtime) <= 1

====
